---- MODULE Spec2Model ----
(***************************************************************************)
(* Kinematics & animation engine of kinemat-lab.                           *)
(*                                                                         *)
(* App (src/src/App.js) owns the joint angles, the step index, the joint   *)
(* selector and the animation switch.  Robot2d (robot2d.js) and Robot3d    *)
(* (src/unnamed/part_003) each run a requestAnimationFrame loop inside a   *)
(* React effect that writes animProgress, and derive from animProgress     *)
(* the active joint, its local progress and the animated frame.            *)
(*                                                                         *)
(* Numbers.  Times are integer milliseconds.  A progress value is the      *)
(* exact fraction the code divides out, kept as [n |-> numerator,          *)
(* d |-> denominator] (d > 0), e.g. (elapsed % 15000) / (15000 / 5) is     *)
(* [n |-> elapsed % 15000, d |-> 3000].  Angles are kept in degrees, i.e.  *)
(* a stored value a stands for the radian value a * PI / 180.              *)
(***************************************************************************)
EXTENDS Integers, FiniteSets, Sequences, TLC

VARIABLES
    mounted,            \* FALSE until React has run the mount effects
    viewMode,           \* App: "2D" or "3D" (which robot view is mounted)
    angles,             \* App: [thetaBase, theta1, theta2, theta3]
    selectedStep,       \* App: step index 0..4
    selectedJoint,      \* App: 0 = play all, 1..3 = single joint
    showFrameAnimation, \* App: animation switch
    fkSelectedStep,     \* FKProcessSelector: its own selectedStep state
    animProgress,       \* mounted robot view: progress written by the loop
    animationRef,       \* mounted robot view: animationRef.current (0 = null)
    frames,             \* host: frame callbacks requested and not yet run
    now,                \* host: timestamp of the last animation frame (ms)
    angleEdits          \* user: number of slider moves made so far

vars == <<mounted, viewMode, angles, selectedStep, selectedJoint,
          showFrameAnimation, fkSelectedStep, animProgress, animationRef,
          frames, now, angleEdits>>

appVars == <<viewMode, angles, selectedStep, selectedJoint,
             showFrameAnimation, fkSelectedStep>>

---------------------------------------------------------------------------
(* Bounds of the model *)

\* Granularity of the host's frame timestamps, in milliseconds.
FrameMs == 1000

\* A frame callback runs 1..MaxSkip granules after the previous frame.
MaxSkip == 2

\* The host clock is followed up to MaxClock granules.
MaxClock == 17

\* The user moves a slider at most MaxAngleEdits times.
MaxAngleEdits == 1

\* Slider positions tried by the user (degrees).
SliderDegrees == {90}

\* Slider positions tried when the solver is explored (degrees).
SliderSamples == {-180, -60, 0, 45, 90, 165, 180}

\* Significant bits a number keeps.
SignificandBits == 9

Joints == {"thetaBase", "theta1", "theta2", "theta3"}

---------------------------------------------------------------------------
(* Exact fractions *)

Frac(n, d) == [n |-> n, d |-> d]

Zero == Frac(0, 1)

One == Frac(1, 1)

\* a <= b, a < b, a = b on fractions with positive denominators
FLe(a, b) == a.n * b.d <= b.n * a.d

FLt(a, b) == a.n * b.d < b.n * a.d

FEq(a, b) == a.n * b.d = b.n * a.d

\* a <= k, a > k, a < k, a >= k, a = k, a - k, k * a for an integer k
LeInt(a, k) == a.n <= k * a.d

GtInt(a, k) == a.n > k * a.d

LtInt(a, k) == a.n < k * a.d

GeInt(a, k) == a.n >= k * a.d

EqInt(a, k) == a.n = k * a.d

SubInt(a, k) == Frac(a.n - k * a.d, a.d)

Scale(k, a) == Frac(k * a.n, a.d)

\* Math.min(a, 1)
Min1(a) == IF LeInt(a, 1) THEN a ELSE One

---------------------------------------------------------------------------
(* The host's frame-callback queue *)

\* A requested callback: the animate closure of one effect run.  view is
\* the component that created it, selectedJoint the prop the effect run
\* captured, startTime the closure's `let startTime` (0 = not yet set).
Callback(id, view, sj, startTime) ==
    [id |-> id, view |-> view, selectedJoint |-> sj, startTime |-> startTime]

\* The handle requestAnimationFrame returns: one that names no pending callback.
FreshId(fs) ==
    CHOOSE i \in 1..(Cardinality(fs) + 1) :
        /\ \A f \in fs : f.id # i
        /\ \A j \in 1..(i - 1) : \E f \in fs : f.id = j

\* Variant: cancelling leaves the callback in the queue.
cancelAnimationFrame_Keep(fs, id) == fs

cancelAnimationFrame(fs, id) == {f \in fs : f.id # id}

---------------------------------------------------------------------------
(* The animation clock: Robot2d and Robot3d effects *)

DURATION2D(sj) == IF sj = 0 THEN 15000 ELSE (IF sj = 1 THEN 4000 ELSE 4000)

\* Variant: the 2D elapsed time is not reduced modulo the duration.
animateProgress2D_NoModulo(sj, elapsed) ==
    IF sj = 0
    THEN Frac(elapsed, DURATION2D(sj) \div 5)
    ELSE IF sj = 1
         THEN Frac(elapsed, DURATION2D(sj))
         ELSE Frac(elapsed, DURATION2D(sj) \div 2)

\* Variant: every 2D mode runs at 2000 ms per progress unit.
animateProgress2D_EvenUnits(sj, elapsed) ==
    Frac(elapsed % DURATION2D(sj), 2000)

\* Robot2d animate: the progress passed to setAnimProgress
animateProgress2D(sj, elapsed) ==
    IF sj = 0
    THEN Frac(elapsed % DURATION2D(sj), DURATION2D(sj) \div 5)
    ELSE IF sj = 1
         THEN Frac(elapsed % DURATION2D(sj), DURATION2D(sj))
         ELSE Frac(elapsed % DURATION2D(sj), DURATION2D(sj) \div 2)

DURATION3D(sj) == IF sj = 0 THEN 16000 ELSE 4000

TOTAL_PROGRESS(sj) == IF sj = 0 THEN 8 ELSE 2

\* Variant: the elapsed time is not reduced modulo the duration.
animateProgress3D_NoModulo(sj, elapsed) ==
    Frac(elapsed, DURATION3D(sj) \div TOTAL_PROGRESS(sj))

\* Robot3d animate: the progress passed to setAnimProgress
animateProgress3D(sj, elapsed) ==
    Frac(elapsed % DURATION3D(sj), DURATION3D(sj) \div TOTAL_PROGRESS(sj))

\* Variant: the epoch is never taken from the first timestamp.
animateStartTime_Keep(startTime, time) == startTime

\* `if (!startTime) startTime = time`
animateStartTime(startTime, time) == IF startTime = 0 THEN time ELSE startTime

\* Variant: the cleanup cancels nothing.
effectCleanup_NoCancel(fs, ref) == fs

\* The effect's cleanup: cancel the callback animationRef.current names.
effectCleanup(fs, ref) == IF ref # 0 THEN cancelAnimationFrame(fs, ref) ELSE fs

\* Variant: disabling does not reset the progress.
effectBody_NoReset(view, show, sj, prog, ref, fs) ==
    IF show
    THEN [animProgress |-> prog,
          animationRef |-> FreshId(fs),
          frames       |-> fs \cup {Callback(FreshId(fs), view, sj, 0)}]
    ELSE [animProgress |-> prog,
          animationRef |-> ref,
          frames       |-> IF ref # 0 THEN cancelAnimationFrame(fs, ref) ELSE fs]

\* The effect's body, run after the previous run's cleanup.  Gives the
\* view's animProgress, animationRef.current and the host's queue.
effectBody(view, show, sj, prog, ref, fs) ==
    IF show
    THEN [animProgress |-> prog,
          animationRef |-> FreshId(fs),
          frames       |-> fs \cup {Callback(FreshId(fs), view, sj, 0)}]
    ELSE [animProgress |-> Zero,
          animationRef |-> ref,
          frames       |-> IF ref # 0 THEN cancelAnimationFrame(fs, ref) ELSE fs]

\* Variant: the effect depends on showFrameAnimation only.
RunEffect_ShowOnly(depsChanged, show, sj) ==
    IF show # showFrameAnimation
    THEN LET e == effectBody(viewMode, show, sj, animProgress, animationRef,
                             effectCleanup(frames, animationRef))
         IN  /\ animProgress' = e.animProgress
             /\ animationRef' = e.animationRef
             /\ frames' = e.frames
    ELSE UNCHANGED <<animProgress, animationRef, frames>>

\* A render of the mounted robot view with props show, sj, angles: when
\* a dependency of the effect changed, React runs the cleanup of the
\* previous effect run and then the effect body.
RunEffect(depsChanged, show, sj) ==
    IF depsChanged
    THEN LET e == effectBody(viewMode, show, sj, animProgress, animationRef,
                             effectCleanup(frames, animationRef))
         IN  /\ animProgress' = e.animProgress
             /\ animationRef' = e.animationRef
             /\ frames' = e.frames
    ELSE UNCHANGED <<animProgress, animationRef, frames>>

---------------------------------------------------------------------------
(* The forward-kinematics solver: cumulative angles *)

\* JavaScript numbers are binary floating point: a result keeps a fixed
\* number of significant bits (53 in the source, SignificandBits here) and
\* is rounded to the nearest such number, ties to the even significand.
\* Angles are counted in whole degrees.
RECURSIVE Pow2(_)
Pow2(k) == IF k = 0 THEN 1 ELSE 2 * Pow2(k - 1)

Abs(x) == IF x < 0 THEN -x ELSE x

\* The integers below FirstRounded are all representable.
FirstRounded == Pow2(SignificandBits)

\* The distance between neighbouring numbers at the magnitude of m >= 0.
RECURSIVE Spacing(_)
Spacing(m) == IF m < FirstRounded THEN 1 ELSE 2 * Spacing(m \div 2)

\* x needs no rounding.
IsNumber(x) == Abs(x) % Spacing(Abs(x)) = 0

RoundToNumber(x) ==
    IF Abs(x) < FirstRounded THEN x ELSE
    LET m     == Abs(x)
        q     == Spacing(m)
        lower == (m \div q) * q
        r     == IF 2 * (m - lower) < q THEN lower
                 ELSE IF 2 * (m - lower) > q THEN lower + q
                 ELSE IF (lower \div q) % 2 = 0 THEN lower ELSE lower + q
    IN  IF x < 0 THEN -r ELSE r

\* a + b and a - b of the source
fadd(a, b) == RoundToNumber(a + b)

fsub(a, b) == RoundToNumber(a - b)

\* Variant: the angles are not accumulated.
fkAngles_Relative(a) ==
    [absolute1 |-> a.theta1, absolute2 |-> a.theta2, absolute3 |-> a.theta3]

\* Variant: the base yaw is added to the arm's angles.
fkAngles_WithBase(a) ==
    [absolute1 |-> fadd(a.thetaBase, a.theta1),
     absolute2 |-> fadd(fadd(a.thetaBase, a.theta1), a.theta2),
     absolute3 |-> fadd(fadd(fadd(a.thetaBase, a.theta1), a.theta2), a.theta3)]

\* calculateForwardKinematics(angles, config).angles
fkAngles(a) ==
    [absolute1 |-> a.theta1,
     absolute2 |-> fadd(a.theta1, a.theta2),
     absolute3 |-> fadd(fadd(a.theta1, a.theta2), a.theta3)]

---------------------------------------------------------------------------
(* The forward-kinematics solver: joint positions *)

\* Math.sin and Math.cos return the sine and cosine rounded to a
\* representable number; here they are rounded to 1 / TrigScale.  Lengths and
\* coordinates are counted in units of 1 / TrigScale.
TrigScale == 100

\* sin of 0..90 degrees, times TrigScale, rounded
SinTable ==
    <<0, 2, 3, 5, 7, 9, 10, 12, 14, 16, 17, 19, 21,
       22, 24, 26, 28, 29, 31, 33, 34, 36, 37, 39, 41, 42,
       44, 45, 47, 48, 50, 52, 53, 54, 56, 57, 59, 60, 62,
       63, 64, 66, 67, 68, 69, 71, 72, 73, 74, 75, 77, 78,
       79, 80, 81, 82, 83, 84, 85, 86, 87, 87, 88, 89, 90,
       91, 91, 92, 93, 93, 94, 95, 95, 96, 96, 97, 97, 97,
       98, 98, 98, 99, 99, 99, 99, 100, 100, 100, 100, 100, 100>>

Mod360(a) == ((a % 360) + 360) % 360

sin(a) ==
    LET b == Mod360(a) IN
    IF b <= 90 THEN SinTable[b + 1]
    ELSE IF b <= 180 THEN SinTable[180 - b + 1]
    ELSE IF b <= 270 THEN -SinTable[b - 180 + 1]
    ELSE -SinTable[360 - b + 1]

cos(a) == sin(a + 90)

\* The integer nearest to the square root of v >= 0.
RECURSIVE SqrtBetween(_, _, _)
SqrtBetween(v, lo, hi) ==
    IF lo = hi THEN lo
    ELSE LET mid == (lo + hi + 1) \div 2 IN
         IF mid * mid <= v THEN SqrtBetween(v, mid, hi)
         ELSE SqrtBetween(v, lo, mid - 1)

Sqrt(v) ==
    LET r == SqrtBetween(v, 0, 46340) IN
    IF v - r * r > r THEN r + 1 ELSE r

\* Math.hypot(dx, dy)
hypot(dx, dy) == Sqrt(dx * dx + dy * dy)

DEFAULT_LINK_LENGTHS == [L1 |-> 40, L2 |-> 70, L3 |-> 50]

DEFAULT_CONFIG ==
    [linkLengths |-> DEFAULT_LINK_LENGTHS, scale |-> Frac(2, 1),
     baseX |-> 0, baseY |-> 0]

\* An object without fields: {}
EmptyObject == [k \in {} |-> 0]

\* { ...defaults, ...over }
Spread(defaults, over) ==
    [k \in DOMAIN defaults \cup DOMAIN over |->
        IF k \in DOMAIN over THEN over[k] ELSE defaults[k]]

\* calculateForwardKinematics: finalConfig
finalConfig(config) ==
    [Spread(DEFAULT_CONFIG, config) EXCEPT
        !.linkLengths =
            Spread(DEFAULT_CONFIG.linkLengths,
                   IF "linkLengths" \in DOMAIN config THEN config.linkLengths
                   ELSE EmptyObject)]

\* L * scale * t for a length L in mm, the scale (a fraction) and a factor
\* t counted in 1 / TrigScale.
\* The objects of the module before a call, by name; DEFAULT_CONFIG refers
\* to DEFAULT_LINK_LENGTHS by reference.
ModuleObjects ==
    [DEFAULT_LINK_LENGTHS |-> DEFAULT_LINK_LENGTHS,
     DEFAULT_CONFIG |->
         [DEFAULT_CONFIG EXCEPT !.linkLengths = "DEFAULT_LINK_LENGTHS"]]

GivenLinkLengths(config) ==
    IF "linkLengths" \in DOMAIN config THEN config.linkLengths ELSE EmptyObject

\* Variant: the given link lengths are assigned into the default ones.
mergeObjects_Assign(heap, config) ==
    [o \in DOMAIN heap \cup {"finalConfig", "finalConfig.linkLengths"} |->
        IF o = "finalConfig.linkLengths" \/ o = "DEFAULT_LINK_LENGTHS"
        THEN Spread(heap[heap.DEFAULT_CONFIG.linkLengths],
                    GivenLinkLengths(config))
        ELSE IF o = "finalConfig"
        THEN [Spread(heap.DEFAULT_CONFIG, config)
                 EXCEPT !.linkLengths = "finalConfig.linkLengths"]
        ELSE heap[o]]

\* The objects after `const finalConfig = {...}`: the two object literals
\* are new objects, every other object is left as it was.
mergeObjects(heap, config) ==
    [o \in DOMAIN heap \cup {"finalConfig", "finalConfig.linkLengths"} |->
        IF o = "finalConfig.linkLengths"
        THEN Spread(heap[heap.DEFAULT_CONFIG.linkLengths],
                    GivenLinkLengths(config))
        ELSE IF o = "finalConfig"
        THEN [Spread(heap.DEFAULT_CONFIG, config)
                 EXCEPT !.linkLengths = "finalConfig.linkLengths"]
        ELSE heap[o]]

ScaledBy(L, scale, t) == (L * scale.n * t) \div scale.d

\* Variant: the link is laid out with y pointing up.
jointAfter_YUp(prev, L, scale, angle) ==
    [x |-> prev.x + ScaledBy(L, scale, cos(angle)),
     y |-> prev.y + ScaledBy(L, scale, sin(angle))]

\* calculateForwardKinematics: the joint at the end of a link of length L
\* that leaves prev at the absolute angle
jointAfter(prev, L, scale, angle) ==
    [x |-> prev.x + ScaledBy(L, scale, cos(angle)),
     y |-> prev.y - ScaledBy(L, scale, sin(angle))]

\* Variant: the reach is the sum of the link lengths.
fkReach_Sum(base, joint1, joint2, joint3) ==
    hypot(joint1.x - base.x, joint1.y - base.y)
        + hypot(joint2.x - joint1.x, joint2.y - joint1.y)
        + hypot(joint3.x - joint2.x, joint3.y - joint2.y)

\* calculateForwardKinematics: reach
fkReach(base, joint1, joint2, joint3) ==
    hypot(joint3.x - base.x, joint3.y - base.y)

calculateForwardKinematics(a, config) ==
    LET cfg    == finalConfig(config)
        L      == cfg.linkLengths
        base   == [x |-> cfg.baseX * TrigScale, y |-> cfg.baseY * TrigScale]
        abs    == fkAngles(a)
        joint1 == jointAfter(base, L.L1, cfg.scale, abs.absolute1)
        joint2 == jointAfter(joint1, L.L2, cfg.scale, abs.absolute2)
        joint3 == jointAfter(joint2, L.L3, cfg.scale, abs.absolute3)
    IN  [base |-> base, joint1 |-> joint1, joint2 |-> joint2,
         joint3 |-> joint3,
         allJoints |-> <<base, joint1, joint2, joint3>>,
         angles |-> abs,
         linkLengths |->
             [link1 |-> hypot(joint1.x - base.x, joint1.y - base.y),
              link2 |-> hypot(joint2.x - joint1.x, joint2.y - joint1.y),
              link3 |-> hypot(joint3.x - joint2.x, joint3.y - joint2.y)],
         reach |-> fkReach(base, joint1, joint2, joint3),
         config |-> cfg]

\* distance(point1, point2)
distance(point1, point2) ==
    hypot(point2.x - point1.x, point2.y - point1.y)

\* Robot3d: to3D(pos2d)
to3D(pos2d) == <<pos2d.x, -pos2d.y, 0>>

---------------------------------------------------------------------------
(* Robot2d: sequencer, animated frame, matrix overlay *)

L1 == 40

L2 == 70

L3 == 50

SCALE == 2

\* No element is rendered (the render function returns null).
NoFrame == [drawn |-> FALSE]

\* Variant: three equal 2-unit windows, closed-open.
renderAnimatedFrameActive_EvenWindows(sj, p) ==
    IF sj = 0
    THEN IF LtInt(p, 2)
         THEN [activeJoint |-> 1, localProgress |-> p]
         ELSE IF LtInt(p, 4)
              THEN [activeJoint |-> 2, localProgress |-> SubInt(p, 2)]
              ELSE [activeJoint |-> 3, localProgress |-> SubInt(p, 4)]
    ELSE [activeJoint |-> sj, localProgress |-> p]

\* renderAnimatedFrame: activeJoint and localProgress
renderAnimatedFrameActive(sj, p) ==
    IF sj = 0
    THEN IF LeInt(p, 1)
         THEN [activeJoint |-> 1, localProgress |-> p]
         ELSE IF LeInt(p, 3)
              THEN [activeJoint |-> 2, localProgress |-> SubInt(p, 1)]
              ELSE [activeJoint |-> 3, localProgress |-> SubInt(p, 3)]
    ELSE [activeJoint |-> sj, localProgress |-> p]

\* renderMatrixOverlay (2D): activeJoint and localProgress
renderMatrixOverlayActive(sj, p) ==
    IF sj = 0
    THEN IF LeInt(p, 1)
         THEN [activeJoint |-> 1, localProgress |-> p]
         ELSE IF LeInt(p, 3)
              THEN [activeJoint |-> 2, localProgress |-> SubInt(p, 1)]
              ELSE [activeJoint |-> 3, localProgress |-> SubInt(p, 3)]
    ELSE [activeJoint |-> sj, localProgress |-> p]

\* Variant: the frame of joint 3 starts from the base.
jointPose2D_FromBase(activeJoint, a) ==
    IF activeJoint = 1
    THEN [startPos |-> "base", startAngle |-> 0,
          targetAngle |-> fkAngles(a).absolute1,
          translateLength |-> 0, rotationOnly |-> TRUE]
    ELSE IF activeJoint = 2
         THEN [startPos |-> "base", startAngle |-> fkAngles(a).absolute1,
               targetAngle |-> fkAngles(a).absolute2,
               translateLength |-> L1 * SCALE, rotationOnly |-> FALSE]
         ELSE [startPos |-> "base", startAngle |-> fkAngles(a).absolute2,
               targetAngle |-> fkAngles(a).absolute3,
               translateLength |-> L2 * SCALE, rotationOnly |-> FALSE]

\* renderAnimatedFrame: the pose of the active joint's animation
jointPose2D(activeJoint, a) ==
    IF activeJoint = 1
    THEN [startPos |-> "base", startAngle |-> 0,
          targetAngle |-> fkAngles(a).absolute1,
          translateLength |-> 0, rotationOnly |-> TRUE]
    ELSE IF activeJoint = 2
         THEN [startPos |-> "base", startAngle |-> fkAngles(a).absolute1,
               targetAngle |-> fkAngles(a).absolute2,
               translateLength |-> L1 * SCALE, rotationOnly |-> FALSE]
         ELSE [startPos |-> "joint1", startAngle |-> fkAngles(a).absolute2,
               targetAngle |-> fkAngles(a).absolute3,
               translateLength |-> L2 * SCALE, rotationOnly |-> FALSE]

\* Variant: the 2D frame rotates first and translates afterwards.
interpolate2D_RotateFirst(pose, lp) ==
    IF LeInt(lp, 1)
    THEN [rot |-> lp, dist |-> Zero, phase |-> "rotating"]
    ELSE [rot |-> One, dist |-> Scale(pose.translateLength, Min1(SubInt(lp, 1))),
          phase |-> "translating"]

\* renderAnimatedFrame: the interpolation.  rot is the factor applied to
\* (targetAngle - startAngle), dist the distance moved from startPos along
\* heading.
interpolate2D(pose, lp) ==
    IF pose.rotationOnly
    THEN [rot |-> Min1(lp), dist |-> Zero, phase |-> "rotating"]
    ELSE IF LeInt(lp, 1)
         THEN [rot |-> Zero, dist |-> Scale(pose.translateLength, lp),
               phase |-> "translating"]
         ELSE [rot |-> Min1(SubInt(lp, 1)),
               dist |-> Frac(pose.translateLength, 1), phase |-> "rotating"]

renderAnimatedFrame(show, sj, p, a) ==
    IF ~show THEN NoFrame
    ELSE LET r == renderAnimatedFrameActive(sj, p) IN
         IF r.activeJoint \notin {1, 2, 3} THEN NoFrame
         ELSE LET pose == jointPose2D(r.activeJoint, a)
                  i    == interpolate2D(pose, r.localProgress)
              IN  [drawn |-> TRUE, activeJoint |-> r.activeJoint,
                   localProgress |-> r.localProgress,
                   startPos |-> pose.startPos, startAngle |-> pose.startAngle,
                   targetAngle |-> pose.targetAngle,
                   translateLength |-> pose.translateLength,
                   heading |-> pose.startAngle,
                   rot |-> i.rot, dist |-> i.dist, phase |-> i.phase]

renderMatrixOverlay(show, sj, p, a) ==
    IF ~show THEN NoFrame
    ELSE LET r  == renderMatrixOverlayActive(sj, p)
             lp == r.localProgress
         IN  IF r.activeJoint \notin {1, 2, 3} THEN NoFrame
             ELSE [drawn |-> TRUE, activeJoint |-> r.activeJoint,
                   isRotationPhase |->
                       IF r.activeJoint = 1 THEN LeInt(lp, 1) ELSE GtInt(lp, 1),
                   isTranslationPhase |->
                       IF r.activeJoint = 1 THEN FALSE ELSE LeInt(lp, 1),
                   targetLength |->
                       IF r.activeJoint = 1 THEN L1
                       ELSE IF r.activeJoint = 2 THEN L2 ELSE L3,
                   theta_n |->
                       IF r.activeJoint = 1 THEN a.theta1
                       ELSE IF r.activeJoint = 2 THEN a.theta2 ELSE a.theta3]

---------------------------------------------------------------------------
(* Robot3d: sequencer, base-yaw frame, animated frame, matrix overlay *)

\* Variant: strict comparisons, a boundary value goes to the later window.
getActiveJointAndProgress_Strict(sj, p) ==
    IF sj # 0 THEN [activeJoint |-> sj, localProgress |-> p]
    ELSE IF LtInt(p, 2) THEN [activeJoint |-> -1, localProgress |-> p]
    ELSE IF LtInt(p, 4) THEN [activeJoint |-> 1, localProgress |-> SubInt(p, 2)]
    ELSE IF LtInt(p, 6) THEN [activeJoint |-> 2, localProgress |-> SubInt(p, 4)]
    ELSE [activeJoint |-> 3, localProgress |-> SubInt(p, 6)]

\* Variant: the single-joint early return is missing.
getActiveJointAndProgress_NoSingle(sj, p) ==
    IF LeInt(p, 2) THEN [activeJoint |-> -1, localProgress |-> p]
    ELSE IF LeInt(p, 4) THEN [activeJoint |-> 1, localProgress |-> SubInt(p, 2)]
    ELSE IF LeInt(p, 6) THEN [activeJoint |-> 2, localProgress |-> SubInt(p, 4)]
    ELSE [activeJoint |-> 3, localProgress |-> SubInt(p, 6)]

\* Variant: the window start is not subtracted from the raw progress.
getActiveJointAndProgress_NoOffset(sj, p) ==
    IF sj # 0 THEN [activeJoint |-> sj, localProgress |-> p]
    ELSE IF LeInt(p, 2) THEN [activeJoint |-> -1, localProgress |-> p]
    ELSE IF LeInt(p, 4) THEN [activeJoint |-> 1, localProgress |-> p]
    ELSE IF LeInt(p, 6) THEN [activeJoint |-> 2, localProgress |-> p]
    ELSE [activeJoint |-> 3, localProgress |-> p]

\* activeJoint -1 is the base-yaw window
getActiveJointAndProgress(sj, p) ==
    IF sj # 0 THEN [activeJoint |-> sj, localProgress |-> p]
    ELSE IF LeInt(p, 2) THEN [activeJoint |-> -1, localProgress |-> p]
    ELSE IF LeInt(p, 4) THEN [activeJoint |-> 1, localProgress |-> SubInt(p, 2)]
    ELSE IF LeInt(p, 6) THEN [activeJoint |-> 2, localProgress |-> SubInt(p, 4)]
    ELSE [activeJoint |-> 3, localProgress |-> SubInt(p, 6)]

\* showLink1..3: selectedStep >= 2, 3, 4
showLink(k, step) == step >= k + 1

\* Variant: the showFrameAnimation guard is missing.
renderBaseYawFrame_NoGuard(show, sj, p, a) ==
    LET r == getActiveJointAndProgress(sj, p) IN
    IF r.activeJoint # -1 THEN NoFrame
    ELSE [drawn |-> TRUE, activeJoint |-> -1,
          localProgress |-> r.localProgress,
          targetAngle |-> a.thetaBase,
          rot |-> IF LeInt(r.localProgress, 1) THEN r.localProgress ELSE One]

renderBaseYawFrame(show, sj, p, a) ==
    IF ~show THEN NoFrame
    ELSE LET r == getActiveJointAndProgress(sj, p) IN
         IF r.activeJoint # -1 THEN NoFrame
         ELSE [drawn |-> TRUE, activeJoint |-> -1,
               localProgress |-> r.localProgress,
               targetAngle |-> a.thetaBase,
               rot |-> IF LeInt(r.localProgress, 1) THEN r.localProgress ELSE One]

\* renderAnimatedFrame3D: the pose of the active joint's animation
jointPose3D(activeJoint, a) ==
    IF activeJoint = 1
    THEN [startPos |-> "base", startAngle |-> 0,
          targetAngle |-> fkAngles(a).absolute1, targetLength |-> 4]
    ELSE IF activeJoint = 2
         THEN [startPos |-> "joint1", startAngle |-> fkAngles(a).absolute1,
               targetAngle |-> fkAngles(a).absolute2, targetLength |-> 7]
         ELSE [startPos |-> "joint2", startAngle |-> fkAngles(a).absolute2,
               targetAngle |-> fkAngles(a).absolute3, targetLength |-> 5]

\* Variant: the 3D frame translates first and rotates afterwards.
interpolate3D_TranslateFirst(pose, lp) ==
    IF LeInt(lp, 1)
    THEN [rot |-> Zero, dist |-> Scale(pose.targetLength, lp),
          phase |-> "translating"]
    ELSE [rot |-> Min1(SubInt(lp, 1)),
          dist |-> Frac(pose.targetLength, 1), phase |-> "rotating"]

\* renderAnimatedFrame3D: the interpolation (currentAngle, currentDist)
interpolate3D(pose, lp) ==
    IF LeInt(lp, 1)
    THEN [rot |-> lp, dist |-> Zero, phase |-> "rotating"]
    ELSE [rot |-> One, dist |-> Scale(pose.targetLength, SubInt(lp, 1)),
          phase |-> "translating"]

renderAnimatedFrame3D(show, sj, step, p, a) ==
    IF ~show THEN NoFrame
    ELSE LET r == getActiveJointAndProgress(sj, p) IN
         IF r.activeJoint = -1 THEN NoFrame
         ELSE IF r.activeJoint \in {1, 2, 3} /\ showLink(r.activeJoint, step)
              THEN LET pose == jointPose3D(r.activeJoint, a)
                       i    == interpolate3D(pose, r.localProgress)
                   IN  [drawn |-> TRUE, activeJoint |-> r.activeJoint,
                        localProgress |-> r.localProgress,
                        startPos |-> pose.startPos,
                        startAngle |-> pose.startAngle,
                        targetAngle |-> pose.targetAngle,
                        translateLength |-> pose.targetLength,
                        heading |-> pose.targetAngle,
                        rot |-> i.rot, dist |-> i.dist, phase |-> i.phase]
              ELSE NoFrame

renderMatrixOverlay3D(show, sj, step, p, a) ==
    IF ~show THEN NoFrame
    ELSE LET r  == getActiveJointAndProgress(sj, p)
             lp == r.localProgress
         IN  IF r.activeJoint = -1
             THEN [drawn |-> TRUE, activeJoint |-> -1,
                   isRotationPhase |-> LeInt(lp, 1),
                   isTranslationPhase |-> FALSE,
                   targetLength |-> 0, theta_n |-> a.thetaBase]
             ELSE IF r.activeJoint \in {1, 2, 3} /\ showLink(r.activeJoint, step)
                  THEN [drawn |-> TRUE, activeJoint |-> r.activeJoint,
                        isRotationPhase |-> LeInt(lp, 1),
                        isTranslationPhase |-> GtInt(lp, 1),
                        targetLength |->
                            IF r.activeJoint = 1 THEN 40
                            ELSE IF r.activeJoint = 2 THEN 70 ELSE 50,
                        theta_n |->
                            IF r.activeJoint = 1 THEN a.theta1
                            ELSE IF r.activeJoint = 2 THEN a.theta2 ELSE a.theta3]
                  ELSE NoFrame

---------------------------------------------------------------------------
(* App handlers *)

\* Variant: step 4 is not mapped to the play-all selector 0.
handleStepChange_NoPlayAll(step, s) ==
    IF step >= 1
    THEN [selectedStep |-> step, selectedJoint |-> step,
          showFrameAnimation |-> TRUE]
    ELSE [selectedStep |-> step, selectedJoint |-> s.selectedJoint,
          showFrameAnimation |-> FALSE]

\* Variant: step 4 leaves the animation switch as it is.
handleStepChange_NoEnable(step, s) ==
    IF step = 4
    THEN [selectedStep |-> step, selectedJoint |-> 0,
          showFrameAnimation |-> s.showFrameAnimation]
    ELSE IF step >= 1
         THEN [selectedStep |-> step, selectedJoint |-> step,
               showFrameAnimation |-> TRUE]
         ELSE [selectedStep |-> step, selectedJoint |-> s.selectedJoint,
               showFrameAnimation |-> FALSE]

\* Variant: a step 1..3 does not select its joint.
handleStepChange_KeepJoint(step, s) ==
    IF step = 4
    THEN [selectedStep |-> step, selectedJoint |-> 0, showFrameAnimation |-> TRUE]
    ELSE [selectedStep |-> step, selectedJoint |-> s.selectedJoint,
          showFrameAnimation |-> step >= 1]

\* Variant: a step 1..4 flips the animation switch instead of setting it.
handleStepChange_Flip(step, s) ==
    IF step = 4
    THEN [selectedStep |-> step, selectedJoint |-> 0,
          showFrameAnimation |-> ~s.showFrameAnimation]
    ELSE IF step >= 1
         THEN [selectedStep |-> step, selectedJoint |-> step,
               showFrameAnimation |-> ~s.showFrameAnimation]
         ELSE [selectedStep |-> step, selectedJoint |-> s.selectedJoint,
               showFrameAnimation |-> FALSE]

\* handleStepChange(step) on the App state s
handleStepChange(step, s) ==
    IF step = 4
    THEN [selectedStep |-> step, selectedJoint |-> 0, showFrameAnimation |-> TRUE]
    ELSE IF step >= 1
         THEN [selectedStep |-> step, selectedJoint |-> step,
               showFrameAnimation |-> TRUE]
         ELSE [selectedStep |-> step, selectedJoint |-> s.selectedJoint,
               showFrameAnimation |-> FALSE]

AppState ==
    [selectedStep |-> selectedStep, selectedJoint |-> selectedJoint,
     showFrameAnimation |-> showFrameAnimation]

\* Variant: the value is stored in every angle.
handleAngleChange_All(a, joint, value) == [k \in DOMAIN a |-> value]

\* handleAngleChange(joint, value): a new angles object with one field set
handleAngleChange(a, joint, value) == [a EXCEPT ![joint] = value]

---------------------------------------------------------------------------
(* Initial state and actions *)

Init ==
    /\ mounted = FALSE
    /\ viewMode = "2D"
    /\ angles = [thetaBase |-> 0, theta1 |-> 45, theta2 |-> 30, theta3 |-> -60]
    /\ selectedStep = 4
    /\ selectedJoint = 1
    /\ showFrameAnimation = FALSE
    /\ fkSelectedStep = 4
    /\ animProgress = Zero
    /\ animationRef = 0
    /\ frames = {}
    /\ now = 0
    /\ angleEdits = 0

\* First commit: the mount effects run.  Robot2d's effect runs with the
\* initial props and FKProcessSelector's effect calls
\* onStepChange(selectedStep); the render that follows re-runs Robot2d's
\* effect when showFrameAnimation or selectedJoint changed.
Mount ==
    /\ ~mounted
    /\ mounted' = TRUE
    /\ LET first == effectBody(viewMode, showFrameAnimation, selectedJoint,
                               animProgress, animationRef, frames)
           s     == handleStepChange(fkSelectedStep, AppState)
           again == IF s.showFrameAnimation # showFrameAnimation
                       \/ s.selectedJoint # selectedJoint
                    THEN effectBody(viewMode, s.showFrameAnimation, s.selectedJoint,
                                    first.animProgress, first.animationRef,
                                    effectCleanup(first.frames, first.animationRef))
                    ELSE first
       IN  /\ selectedStep' = s.selectedStep
           /\ selectedJoint' = s.selectedJoint
           /\ showFrameAnimation' = s.showFrameAnimation
           /\ animProgress' = again.animProgress
           /\ animationRef' = again.animationRef
           /\ frames' = again.frames
    /\ UNCHANGED <<viewMode, angles, fkSelectedStep, now, angleEdits>>

\* A click on step button `step`: handleStepSelect sets the selector's own
\* state and notifies App; the selector's effect notifies App once more
\* when its state changed.
StepSelect(step) ==
    /\ mounted
    /\ fkSelectedStep' = step
    /\ LET s1 == handleStepChange(step, AppState)
           s  == IF step # fkSelectedStep THEN handleStepChange(step, s1) ELSE s1
       IN  /\ selectedStep' = s.selectedStep
           /\ selectedJoint' = s.selectedJoint
           /\ showFrameAnimation' = s.showFrameAnimation
           /\ RunEffect(s.showFrameAnimation # showFrameAnimation
                            \/ s.selectedJoint # selectedJoint,
                        s.showFrameAnimation, s.selectedJoint)
    /\ UNCHANGED <<mounted, viewMode, angles, now, angleEdits>>

\* JointController's Select: onJointChange(Number(value)), value in 1..3
JointChange(j) ==
    /\ mounted
    /\ selectedJoint' = j
    /\ RunEffect(j # selectedJoint, showFrameAnimation, j)
    /\ UNCHANGED <<mounted, viewMode, angles, selectedStep, showFrameAnimation,
                   fkSelectedStep, now, angleEdits>>

\* JointController's checkbox: onAnimationToggle(checked)
AnimationToggle ==
    /\ mounted
    /\ showFrameAnimation' = ~showFrameAnimation
    /\ RunEffect(TRUE, ~showFrameAnimation, selectedJoint)
    /\ UNCHANGED <<mounted, viewMode, angles, selectedStep, selectedJoint,
                   fkSelectedStep, now, angleEdits>>

\* A slider move: handleAngleChange(joint, val * PI / 180).  The base-yaw
\* slider exists in the 3D view only.  setAngles stores a new object, so
\* the effect re-runs even when the value is the same.
SliderChange(joint, val) ==
    /\ mounted
    /\ joint = "thetaBase" => viewMode = "3D"
    /\ angleEdits < MaxAngleEdits
    /\ angleEdits' = angleEdits + 1
    /\ angles' = handleAngleChange(angles, joint, val)
    /\ RunEffect(TRUE, showFrameAnimation, selectedJoint)
    /\ UNCHANGED <<mounted, viewMode, selectedStep, selectedJoint,
                   showFrameAnimation, fkSelectedStep, now>>

\* The view tabs: the mounted robot view unmounts (its cleanup runs) and
\* the other one mounts with fresh state and runs its effect.
SetViewMode(v) ==
    /\ mounted
    /\ v # viewMode
    /\ viewMode' = v
    /\ LET e == effectBody(v, showFrameAnimation, selectedJoint, Zero, 0,
                           effectCleanup(frames, animationRef))
       IN  /\ animProgress' = e.animProgress
           /\ animationRef' = e.animationRef
           /\ frames' = e.frames
    /\ UNCHANGED <<mounted, angles, selectedStep, selectedJoint,
                   showFrameAnimation, fkSelectedStep, now, angleEdits>>

\* The host runs frame callback f at timestamp now + dt * FrameMs: animate
\* sets startTime on its first run, writes the progress and requests the
\* next frame.  A callback left behind by an unmounted view writes nothing
\* to the mounted one.
Animate(f, dt) ==
    /\ f \in frames
    /\ now + dt * FrameMs <= MaxClock * FrameMs
    /\ now' = now + dt * FrameMs
    /\ LET time    == now + dt * FrameMs
           start   == animateStartTime(f.startTime, time)
           elapsed == time - start
           rest    == frames \ {f}
       IN  /\ animProgress' =
                 IF f.view # viewMode THEN animProgress
                 ELSE IF f.view = "2D"
                      THEN animateProgress2D(f.selectedJoint, elapsed)
                      ELSE animateProgress3D(f.selectedJoint, elapsed)
           /\ animationRef' =
                 IF f.view # viewMode THEN animationRef ELSE FreshId(rest)
           /\ frames' = rest \cup {Callback(FreshId(rest), f.view,
                                            f.selectedJoint, start)}
    /\ UNCHANGED <<mounted, appVars, angleEdits>>

Next ==
    \/ Mount
    \/ \E step \in 0..4 : StepSelect(step)
    \/ \E j \in 1..3 : JointChange(j)
    \/ AnimationToggle
    \/ \E joint \in Joints, val \in SliderDegrees : SliderChange(joint, val)
    \/ \E v \in {"2D", "3D"} : SetViewMode(v)
    \/ \E f \in frames, dt \in 1..MaxSkip : Animate(f, dt)

Spec == Init /\ [][Next]_vars

---------------------------------------------------------------------------
(* What the mounted view derives from the current state *)

Active2D == renderAnimatedFrameActive(selectedJoint, animProgress)

Overlay2D == renderMatrixOverlayActive(selectedJoint, animProgress)

Active3D == getActiveJointAndProgress(selectedJoint, animProgress)

\* The loop of the mounted view has run at least once since it was armed.
Ticking ==
    /\ showFrameAnimation
    /\ \E f \in frames : f.startTime # 0

IsActive(r, joint, lp) == r.activeJoint = joint /\ FEq(r.localProgress, lp)

\* What the mounted view draws in the current state.
Frame2D ==
    renderAnimatedFrame(showFrameAnimation, selectedJoint, animProgress, angles)

Frame3D ==
    renderAnimatedFrame3D(showFrameAnimation, selectedJoint, selectedStep,
                          animProgress, angles)

BaseYaw3D ==
    renderBaseYawFrame(showFrameAnimation, selectedJoint, animProgress, angles)

Matrix2D ==
    renderMatrixOverlay(showFrameAnimation, selectedJoint, animProgress, angles)

Matrix3D ==
    renderMatrixOverlay3D(showFrameAnimation, selectedJoint, selectedStep,
                          animProgress, angles)

\* The animated frame of the mounted view.
Frame == IF viewMode = "2D" THEN Frame2D ELSE Frame3D

---------------------------------------------------------------------------
(* Claims about the sequencer *)

\* C1 (as stated): in play-all mode the 2D sequencer partitions the raw
\* progress p into three 2-unit windows: joint 1 on [0,2), joint 2 on
\* [2,4), joint 3 on [4,6), with localProgress = p - window start.
C1_EvenWindows ==
    (viewMode = "2D" /\ selectedJoint = 0) =>
        LET p == animProgress IN
        /\ (GeInt(p, 0) /\ LtInt(p, 2)) => IsActive(Active2D, 1, p)
        /\ (GeInt(p, 2) /\ LtInt(p, 4)) => IsActive(Active2D, 2, SubInt(p, 2))
        /\ (GeInt(p, 4) /\ LtInt(p, 6)) => IsActive(Active2D, 3, SubInt(p, 4))

\* C1 (amended): in play-all mode the 2D sequencer partitions the raw
\* progress p, which lies in [0,5), into windows of 1, 2 and 2 units:
\* joint 1 with localProgress = p when 0 <= p <= 1, joint 2 with
\* localProgress = p - 1 when 1 < p <= 3, joint 3 with localProgress = p - 3
\* when 3 < p < 5.
C1_Windows2D ==
    (viewMode = "2D" /\ selectedJoint = 0) =>
        LET p == animProgress IN
        /\ GeInt(p, 0) /\ LtInt(p, 5)
        /\ LeInt(p, 1) => IsActive(Active2D, 1, p)
        /\ (GtInt(p, 1) /\ LeInt(p, 3)) => IsActive(Active2D, 2, SubInt(p, 1))
        /\ GtInt(p, 3) => IsActive(Active2D, 3, SubInt(p, 3))

\* C1 witness: play-all in the 2D view, the loop has carried the progress
\* into the third window.
C1_Witness ==
    /\ viewMode = "2D" /\ selectedJoint = 0 /\ Ticking
    /\ GtInt(animProgress, 3)
    /\ Active2D.activeJoint = 3

\* C2 (as stated): a raw progress exactly on a window boundary belongs to
\* the later window, in the 2D frame, the 2D overlay and the 3D sequencer.
C2_TieLater ==
    selectedJoint = 0 =>
        LET p == animProgress IN
        /\ (viewMode = "2D" /\ EqInt(p, 1)) =>
               Active2D.activeJoint = 2 /\ Overlay2D.activeJoint = 2
        /\ (viewMode = "2D" /\ EqInt(p, 3)) =>
               Active2D.activeJoint = 3 /\ Overlay2D.activeJoint = 3
        /\ (viewMode = "3D" /\ EqInt(p, 2)) => Active3D.activeJoint = 1
        /\ (viewMode = "3D" /\ EqInt(p, 4)) => Active3D.activeJoint = 2
        /\ (viewMode = "3D" /\ EqInt(p, 6)) => Active3D.activeJoint = 3

\* C2 (amended): a raw progress exactly on a window boundary belongs to the
\* earlier window (the one that ends at that value), with the local progress
\* at that window's end, uniformly in the 2D frame, the 2D overlay and the 3D
\* sequencer.
C2_TieEarlier ==
    selectedJoint = 0 =>
        LET p == animProgress IN
        /\ (viewMode = "2D" /\ EqInt(p, 1)) =>
               IsActive(Active2D, 1, One) /\ IsActive(Overlay2D, 1, One)
        /\ (viewMode = "2D" /\ EqInt(p, 3)) =>
               IsActive(Active2D, 2, Frac(2, 1)) /\ IsActive(Overlay2D, 2, Frac(2, 1))
        /\ (viewMode = "3D" /\ EqInt(p, 2)) => IsActive(Active3D, -1, Frac(2, 1))
        /\ (viewMode = "3D" /\ EqInt(p, 4)) => IsActive(Active3D, 1, Frac(2, 1))
        /\ (viewMode = "3D" /\ EqInt(p, 6)) => IsActive(Active3D, 2, Frac(2, 1))

\* C2 witness: play-all in the 3D view, the loop has written exactly 4, the
\* boundary between the windows of joint 1 and joint 2.
C2_Witness ==
    /\ viewMode = "3D" /\ selectedJoint = 0 /\ Ticking
    /\ EqInt(animProgress, 4)

\* C3: for every selector and every progress the clock produced, the
\* sequencer of the mounted view returns joint 1, 2 or 3, or the base-yaw
\* window (-1) in 3D play-all; never another value.
C3_ActiveJointDefined ==
    /\ selectedJoint \in 0..3
    /\ viewMode = "2D" =>
           Active2D.activeJoint \in {1, 2, 3} /\ Overlay2D.activeJoint \in {1, 2, 3}
    /\ viewMode = "3D" =>
           \/ Active3D.activeJoint \in {1, 2, 3}
           \/ Active3D.activeJoint = -1 /\ selectedJoint = 0

\* C3 witness: play-all in the 3D view, the loop has reached the last window.
C3_Witness ==
    /\ viewMode = "3D" /\ selectedJoint = 0 /\ Ticking
    /\ GtInt(animProgress, 6)
    /\ Active3D.activeJoint = 3

\* C4: in single-joint mode the sequencer returns activeJoint =
\* selectedJoint and localProgress = the raw progress unchanged.
C4_SingleJoint ==
    selectedJoint \in {1, 2, 3} =>
        /\ viewMode = "2D" =>
               /\ Active2D = [activeJoint |-> selectedJoint,
                              localProgress |-> animProgress]
               /\ Overlay2D = [activeJoint |-> selectedJoint,
                               localProgress |-> animProgress]
        /\ viewMode = "3D" =>
               Active3D = [activeJoint |-> selectedJoint,
                           localProgress |-> animProgress]

\* C4 witness: joint 2 alone in the 3D view, holding a progress beyond the
\* first play-all window.
C4_Witness ==
    /\ viewMode = "3D" /\ selectedJoint = 2 /\ showFrameAnimation
    /\ GtInt(animProgress, 2)

---------------------------------------------------------------------------
(* Claims about the animation clock *)

\* A step in which the host ran a frame callback.
TickStep == now' # now

\* A step in which the host ran a callback for the first time since its
\* effect run armed it.
FirstTickStep == TickStep /\ \E f \in frames : f.startTime = 0

\* The units per cycle the clock contract names.
UnitsPerCycle(view, sj) ==
    IF sj # 0 THEN 2 ELSE (IF view = "2D" THEN 6 ELSE 8)

C6_StartsAtZero ==
    [][/\ (~showFrameAnimation /\ showFrameAnimation') =>
              /\ Cardinality(frames') = 1
              /\ \A f \in frames' : f.startTime = 0
       /\ FirstTickStep =>
              /\ EqInt(animProgress', 0)
              /\ \A f \in frames' : f.startTime = now']_vars

\* C6 witness: a first tick has just written 0 although earlier frames
\* have run (the previous run had advanced).
C6_Witness ==
    /\ showFrameAnimation
    /\ now >= 3 * FrameMs
    /\ frames # {} /\ \A f \in frames : f.startTime = now
    /\ EqInt(animProgress, 0)

\* C7: while animation is disabled the progress is 0 and no frame
\* callback is pending.
C7_DisabledIdle ==
    ~showFrameAnimation => EqInt(animProgress, 0) /\ frames = {}

\* C7 witness: animation is disabled after the loop had run.
C7_Witness ==
    /\ mounted /\ ~showFrameAnimation
    /\ now >= 2 * FrameMs
    /\ EqInt(animProgress, 0) /\ frames = {}

\* Progress values tried besides the stored one.
ProgressSamples == {Frac(1, 2), Frac(3, 2), Frac(7, 2), Frac(13, 2)}

\* C8: while showFrameAnimation is false no planar frame, base-yaw frame
\* or matrix overlay is produced, whatever selectedJoint, selectedStep and
\* the progress are.
C8_NoFrameWhenDisabled ==
    ~showFrameAnimation =>
        \A sj \in 0..3, step \in 0..4, p \in {animProgress} \cup ProgressSamples :
            /\ ~renderAnimatedFrame(showFrameAnimation, sj, p, angles).drawn
            /\ ~renderMatrixOverlay(showFrameAnimation, sj, p, angles).drawn
            /\ ~renderBaseYawFrame(showFrameAnimation, sj, p, angles).drawn
            /\ ~renderAnimatedFrame3D(showFrameAnimation, sj, step, p, angles).drawn
            /\ ~renderMatrixOverlay3D(showFrameAnimation, sj, step, p, angles).drawn

\* C8 witness: animation was switched off in the 3D view in play-all mode
\* with every link shown.
C8_Witness ==
    /\ mounted /\ ~showFrameAnimation
    /\ viewMode = "3D" /\ selectedJoint = 0 /\ selectedStep = 4
    /\ now > 0

\* C9: while animation stays enabled, a change of selectedJoint or of an
\* angle leaves exactly one pending callback, a new one with an unset epoch
\* that captured the new selector; every pending callback holds the current
\* selector; and a first tick writes 0 over the new selector's unit.
C9_RearmOnChange ==
    /\ [](\A f \in frames : f.selectedJoint = selectedJoint /\ f.view = viewMode)
    /\ [][/\ (/\ showFrameAnimation /\ showFrameAnimation'
              /\ viewMode' = viewMode
              /\ (selectedJoint' # selectedJoint \/ angles' # angles)) =>
                 frames' = {Callback(animationRef', viewMode, selectedJoint', 0)}
          /\ FirstTickStep =>
                 animProgress' =
                     IF viewMode = "2D"
                     THEN animateProgress2D(selectedJoint, 0)
                     ELSE animateProgress3D(selectedJoint, 0)]_vars

\* C9 witness: re-armed by a change: a stale non-zero progress with a
\* single callback that has not run yet.
C9_Witness ==
    /\ showFrameAnimation
    /\ GtInt(animProgress, 0)
    /\ frames = {Callback(animationRef, viewMode, selectedJoint, 0)}

---------------------------------------------------------------------------
(* Claims about the animated frame *)

\* C10: in every state in which a frame is drawn, the rotation factor is
\* within [0,1] and the distance moved is within [0, translateLength].
C10_Clamped ==
    LET f2 == renderAnimatedFrame(showFrameAnimation, selectedJoint,
                                  animProgress, angles)
        f3 == renderAnimatedFrame3D(showFrameAnimation, selectedJoint,
                                    selectedStep, animProgress, angles)
        fy == renderBaseYawFrame(showFrameAnimation, selectedJoint,
                                 animProgress, angles)
    IN  /\ (viewMode = "2D" /\ f2.drawn) =>
               /\ GeInt(f2.rot, 0) /\ LeInt(f2.rot, 1)
               /\ GeInt(f2.dist, 0) /\ LeInt(f2.dist, f2.translateLength)
        /\ (viewMode = "3D" /\ f3.drawn) =>
               /\ GeInt(f3.rot, 0) /\ LeInt(f3.rot, 1)
               /\ GeInt(f3.dist, 0) /\ LeInt(f3.dist, f3.translateLength)
        /\ (viewMode = "3D" /\ fy.drawn) =>
               GeInt(fy.rot, 0) /\ LeInt(fy.rot, 1)

\* A tick that carries the same joint's frame forward inside its window.
SameWindowStep ==
    /\ now' # now
    /\ viewMode' = viewMode
    /\ Frame.drawn /\ Frame'.drawn
    /\ Frame'.activeJoint = Frame.activeJoint
    /\ FLt(Frame.localProgress, Frame'.localProgress)

\* C11 (as stated): in the 2D and in the 3D view, for every joint, the
\* frame rotates in place while localProgress <= 1 and translates while
\* localProgress > 1; as localProgress grows inside a window the
\* translating phase never comes before the rotating phase.
C11_RotateThenTranslate ==
    /\ [](Frame.drawn =>
             /\ LeInt(Frame.localProgress, 1) => Frame.phase = "rotating"
             /\ GtInt(Frame.localProgress, 1) => Frame.phase = "translating")
    /\ [][SameWindowStep =>
             ~(Frame.phase = "translating" /\ Frame'.phase = "rotating")]_vars

\* C11 (amended): the 3D frame of every joint rotates in place while
\* localProgress <= 1 and translates while localProgress > 1.  The 2D frame
\* of joint 1 only rotates; the 2D frame of joints 2 and 3 translates while
\* localProgress <= 1 and rotates while localProgress > 1, so in 2D the
\* translating phase precedes the rotating phase.  Inside a window the
\* phase changes only when localProgress crosses 1.
C11_PhaseOrder ==
    /\ []((viewMode = "3D" /\ Frame3D.drawn) =>
             Frame3D.phase =
                 IF LeInt(Frame3D.localProgress, 1) THEN "rotating"
                 ELSE "translating")
    /\ []((viewMode = "2D" /\ Frame2D.drawn) =>
             Frame2D.phase =
                 IF Frame2D.activeJoint = 1 THEN "rotating"
                 ELSE IF LeInt(Frame2D.localProgress, 1) THEN "translating"
                 ELSE "rotating")
    /\ [][SameWindowStep =>
             /\ viewMode = "3D" =>
                    ~(Frame.phase = "translating" /\ Frame'.phase = "rotating")
             /\ viewMode = "2D" =>
                    ~(Frame.phase = "rotating" /\ Frame'.phase = "translating")
             /\ Frame'.phase # Frame.phase =>
                    /\ LeInt(Frame.localProgress, 1)
                    /\ GtInt(Frame'.localProgress, 1)]_vars

\* C11 witness: the 2D frame of joint 3 in play-all mode is in its second
\* phase, rotating at the end of the link it was translated along.
C11_Witness ==
    /\ viewMode = "2D" /\ selectedJoint = 0 /\ Ticking
    /\ Frame2D.drawn /\ Frame2D.activeJoint = 3
    /\ GtInt(Frame2D.localProgress, 1)
    /\ Frame2D.phase = "rotating"
    /\ EqInt(Frame2D.dist, Frame2D.translateLength)

\* currentAngle = startAngle + (targetAngle - startAngle) * rot
CurrentAngle(f) ==
    Frac(f.startAngle * f.rot.d + (f.targetAngle - f.startAngle) * f.rot.n,
         f.rot.d)

\* The frame is drawn at its start position.
AtStart(f) == EqInt(f.dist, 0)

\* The frame is drawn at start position + len * (cos a, sin a).
MovedAlong(f, len, a) ==
    /\ EqInt(f.dist, len)
    /\ len = 0 \/ (f.heading - a) % 360 = 0

\* Local progress values tried besides the ones of the current state.
LocalSamples == {Zero, Frac(1, 2), One, Frac(3, 2), Frac(2, 1)}

LocalProgresses ==
    LocalSamples \cup {Active2D.localProgress, Active3D.localProgress}

\* The frame of joint j alone at local progress lp, every link shown.
JointFrame2D(j, lp) == renderAnimatedFrame(TRUE, j, lp, angles)

JointFrame3D(j, lp) == renderAnimatedFrame3D(TRUE, j, 4, lp, angles)

\* The contract of C12 for one frame f at local progress lp.
RotateThenTranslateFrame(f, lp) ==
    /\ f.drawn
    /\ EqInt(lp, 0) => AtStart(f) /\ EqInt(CurrentAngle(f), f.startAngle)
    /\ EqInt(lp, 1) => AtStart(f) /\ EqInt(CurrentAngle(f), f.targetAngle)
    /\ EqInt(lp, 2) =>
           /\ MovedAlong(f, f.translateLength, f.targetAngle)
           /\ EqInt(CurrentAngle(f), f.targetAngle)
    /\ LeInt(lp, 1) => AtStart(f)
    /\ GtInt(lp, 1) => EqInt(CurrentAngle(f), f.targetAngle)

\* What the 2D frame of joints 2 and 3 does instead.
TranslateThenRotateFrame(f, lp) ==
    /\ f.drawn
    /\ EqInt(lp, 0) => AtStart(f) /\ EqInt(CurrentAngle(f), f.startAngle)
    /\ EqInt(lp, 1) =>
           /\ MovedAlong(f, f.translateLength, f.startAngle)
           /\ EqInt(CurrentAngle(f), f.startAngle)
    /\ EqInt(lp, 2) =>
           /\ MovedAlong(f, f.translateLength, f.startAngle)
           /\ EqInt(CurrentAngle(f), f.targetAngle)
    /\ LeInt(lp, 1) => EqInt(CurrentAngle(f), f.startAngle)
    /\ GtInt(lp, 1) => MovedAlong(f, f.translateLength, f.startAngle)

\* C12 (as stated): for every joint, in the 2D and in the 3D view, the frame
\* is (startPosition, startAngle) at localProgress 0, (startPosition,
\* targetAngle) at 1 and (startPosition + translationLength along
\* targetAngle, targetAngle) at 2; the position stays at startPosition
\* while localProgress <= 1 and the angle at targetAngle while it is > 1.
C12_PhaseBoundaries ==
    \A j \in 1..3, lp \in LocalProgresses :
        /\ RotateThenTranslateFrame(JointFrame2D(j, lp), lp)
        /\ RotateThenTranslateFrame(JointFrame3D(j, lp), lp)

\* C12 (amended): the 3D frame of every joint follows the stated contract.
\* The 2D frame of joint 1 stays at startPosition for every localProgress
\* and turns from startAngle at 0 to targetAngle at 1 and beyond.  The 2D
\* frame of joints 2 and 3 is (startPosition, startAngle) at 0,
\* (startPosition + translationLength along startAngle, startAngle) at 1 and
\* (the same position, targetAngle) at 2; its angle stays at startAngle
\* while localProgress <= 1 and its position at the translated point while
\* localProgress > 1.
C12_PhaseBoundariesByView ==
    \A lp \in LocalProgresses :
        /\ \A j \in 1..3 : RotateThenTranslateFrame(JointFrame3D(j, lp), lp)
        /\ LET f == JointFrame2D(1, lp) IN
               /\ f.drawn /\ AtStart(f) /\ f.translateLength = 0
               /\ EqInt(lp, 0) => EqInt(CurrentAngle(f), f.startAngle)
               /\ GeInt(lp, 1) => EqInt(CurrentAngle(f), f.targetAngle)
        /\ \A j \in 2..3 : TranslateThenRotateFrame(JointFrame2D(j, lp), lp)

\* C12 witness: 2D play-all at raw progress 3: joint 2 at local progress 2,
\* translated by the whole of L1 and turned to its target angle, with a
\* target angle that differs from the start angle.
C12_Witness ==
    /\ viewMode = "2D" /\ selectedJoint = 0 /\ Ticking
    /\ EqInt(animProgress, 3)
    /\ Frame2D.drawn /\ Frame2D.activeJoint = 2
    /\ EqInt(Frame2D.dist, L1 * SCALE)
    /\ EqInt(CurrentAngle(Frame2D), Frame2D.targetAngle)
    /\ Frame2D.targetAngle # Frame2D.startAngle

\* C13: while animation is enabled, whenever the sequencer's active joint
\* is 1, 2 or 3 the mounted view draws an animated frame for that joint,
\* in the 2D and in the 3D view, whatever selectedStep is.
C13_FrameForActiveJoint ==
    showFrameAnimation =>
        /\ (viewMode = "2D" /\ Active2D.activeJoint \in {1, 2, 3}) =>
               Frame2D.drawn /\ Frame2D.activeJoint = Active2D.activeJoint
        /\ (viewMode = "3D" /\ Active3D.activeJoint \in {1, 2, 3}) =>
               Frame3D.drawn /\ Frame3D.activeJoint = Active3D.activeJoint

\* Where the 3D play-all window of active joint j starts: base yaw (-1) at
\* 0, joint 1 at 2, joint 2 at 4, joint 3 at 6.
WindowStart3D(j) == IF j = -1 THEN 0 ELSE 2 * j

\* C14: in play-all mode in the 3D view the raw progress p lies in [0,8)
\* and falls into one of four contiguous 2-unit windows in the order base
\* yaw, joint 1, joint 2, joint 3; the local progress is p minus the start
\* of the window and lies in [0,2].
C14_Windows3D ==
    (viewMode = "3D" /\ selectedJoint = 0) =>
        LET p == animProgress
            r == Active3D
        IN  /\ GeInt(p, 0) /\ LtInt(p, 8)
            /\ r.activeJoint \in {-1, 1, 2, 3}
            /\ FEq(r.localProgress, SubInt(p, WindowStart3D(r.activeJoint)))
            /\ GeInt(r.localProgress, 0) /\ LeInt(r.localProgress, 2)
            /\ (GtInt(p, 0) /\ LtInt(p, 2)) => r.activeJoint = -1
            /\ (GtInt(p, 2) /\ LtInt(p, 4)) => r.activeJoint = 1
            /\ (GtInt(p, 4) /\ LtInt(p, 6)) => r.activeJoint = 2
            /\ (GtInt(p, 6) /\ LtInt(p, 8)) => r.activeJoint = 3

\* C14 witness: 3D play-all, the loop has carried the progress inside the
\* window of joint 2.
C14_Witness ==
    /\ viewMode = "3D" /\ selectedJoint = 0 /\ Ticking
    /\ GtInt(animProgress, 4) /\ LtInt(animProgress, 6)
    /\ Active3D.activeJoint = 2
    /\ GtInt(Active3D.localProgress, 0) /\ LtInt(Active3D.localProgress, 2)

---------------------------------------------------------------------------
(* Claims about the pace of the clock *)

\* A tick of a loop that has run before, inside one cycle (the progress
\* grew, it did not wrap).
ContinuedTick ==
    /\ now' # now
    /\ \E f \in frames : f.startTime # 0 /\ f.view = viewMode
    /\ animProgress'.d = animProgress.d
    /\ animProgress'.n > animProgress.n

\* Between two ticks one progress unit took u milliseconds.
UnitLasts(u) ==
    (animProgress'.n - animProgress.n) * u = (now' - now) * animProgress.d

\* Milliseconds per progress unit of a single joint that owns the 2 units
\* of the clock contract.
SingleJointUnitMs(view) ==
    IF view = "2D" THEN DURATION2D(2) \div 2 ELSE DURATION3D(2) \div 2

\* C15 (as stated): in the 2D and in the 3D view one progress unit lasts
\* the same time in every mode: the single-joint duration over its 2 units.
C15_SameUnitTime ==
    [][ContinuedTick => UnitLasts(SingleJointUnitMs(viewMode))]_vars

\* C15 (amended): in the 3D view one progress unit lasts 2000 ms in
\* play-all and in single-joint mode.  In the 2D view it lasts 3000 ms in
\* play-all mode, 4000 ms for joint 1 alone and 2000 ms for joint 2 or 3
\* alone.
C15_UnitTimeByMode ==
    [][ContinuedTick =>
          UnitLasts(IF viewMode = "3D" THEN 2000
                    ELSE IF selectedJoint = 0 THEN 3000
                    ELSE IF selectedJoint = 1 THEN 4000
                    ELSE 2000)]_vars

\* C15 witness: 2D play-all, two thirds of a unit after 2000 ms.
C15_Witness ==
    /\ viewMode = "2D" /\ selectedJoint = 0 /\ Ticking
    /\ \E f \in frames : now - f.startTime = 2000
    /\ FEq(animProgress, Frac(2, 3))

---------------------------------------------------------------------------
(* The loop followed without a bound on the clock *)

\* The cycle length the callback's effect run captured.
DurationOf(f) ==
    IF f.view = "2D" THEN DURATION2D(f.selectedJoint)
    ELSE DURATION3D(f.selectedJoint)

\* The coarsest grid of timestamps that divides every cycle length.
GridMs ==
    CHOOSE g \in 1..DURATION3D(1) :
        /\ \A view \in {"2D", "3D"}, sj \in 0..3 :
               DurationOf([view |-> view, selectedJoint |-> sj]) % g = 0
        /\ \A h \in (g + 1)..DURATION3D(1) :
               \E view \in {"2D", "3D"}, sj \in 0..3 :
                   DurationOf([view |-> view, selectedJoint |-> sj]) % h # 0

\* Animate with the host clock kept finite.  animate reads the timestamp
\* only through time - startTime, so timestamps are counted from the
\* effect run that armed the callback, on a grid that divides the cycle
\* lengths, and once the elapsed time has passed two cycles the clock is
\* set back by one cycle.  The progress is computed from the elapsed time
\* as the code computes it.
AnimateLive(f, dt) ==
    /\ f \in frames
    /\ LET time    == (IF f.startTime = 0 THEN 0 ELSE now) + dt * GridMs
           start   == animateStartTime(f.startTime, time)
           elapsed == time - start
           rest    == frames \ {f}
       IN  /\ now' = IF elapsed >= 2 * DurationOf(f)
                     THEN time - DurationOf(f) ELSE time
           /\ animProgress' =
                 IF f.view # viewMode THEN animProgress
                 ELSE IF f.view = "2D"
                      THEN animateProgress2D(f.selectedJoint, elapsed)
                      ELSE animateProgress3D(f.selectedJoint, elapsed)
           /\ animationRef' =
                 IF f.view # viewMode THEN animationRef ELSE FreshId(rest)
           /\ frames' = rest \cup {Callback(FreshId(rest), f.view,
                                            f.selectedJoint, start)}
    /\ UNCHANGED <<mounted, appVars, angleEdits>>

Tick == \E f \in frames, dt \in 1..MaxSkip : AnimateLive(f, dt)

NextLive ==
    \/ Mount
    \/ \E step \in 0..4 : StepSelect(step)
    \/ \E j \in 1..3 : JointChange(j)
    \/ AnimationToggle
    \/ \E v \in {"2D", "3D"} : SetViewMode(v)
    \/ Tick

\* The host runs a requested frame callback before its next repaint.
LiveSpec == Init /\ [][NextLive]_vars /\ WF_vars(Tick)

---------------------------------------------------------------------------
(* Claims about the running loop *)

\* The joint whose window the mounted view is in.
ActiveNow ==
    IF viewMode = "2D" THEN Active2D.activeJoint ELSE Active3D.activeJoint

\* The units one cycle of the clock spans.
UnitsOf(view, sj) ==
    IF view = "3D" THEN TOTAL_PROGRESS(sj)
    ELSE IF sj = 0 THEN 5 ELSE IF sj = 1 THEN 1 ELSE 2

\* Play-all keeps running: enabled, and the loop is not re-armed.
SteadyPlayAll ==
    /\ showFrameAnimation /\ selectedJoint = 0
    /\ frames # {} /\ \A f \in frames : f.startTime # 0

\* A tick of a running loop that comes at most one progress unit after the
\* previous one.
SteadyTick ==
    /\ now' # now
    /\ \E f \in frames :
          /\ f.startTime # 0
          /\ (animProgress'.n - animProgress.n + DurationOf(f)) % DurationOf(f)
                 <= animProgress.d

\* The window that follows the window of joint j (-1 is the base yaw).
NextWindow(view, j) ==
    IF j = 3 THEN (IF view = "2D" THEN 1 ELSE -1)
    ELSE IF j = -1 THEN 1 ELSE j + 1

FirstWindow(view) == IF view = "2D" THEN 1 ELSE -1

C17_SinglePending ==
    /\ [](/\ Cardinality(frames) <= 1
          /\ \A f \in frames :
                f.id = animationRef /\ f.view = viewMode /\ showFrameAnimation)
    /\ [][(now' = now /\ frames' # frames) =>
             /\ Cardinality(frames') <= 1
             /\ \A g \in frames' : g.startTime = 0]_vars

\* C17 witness: after a slider move and a switch of the view the loop of
\* the 3D view is running with its single callback.
C17_Witness ==
    /\ viewMode = "3D" /\ angleEdits = 1 /\ Ticking
    /\ now >= 2 * FrameMs
    /\ Cardinality(frames) = 1
    /\ \A f \in frames : f.id = animationRef

---------------------------------------------------------------------------
(* The solver explored over the slider positions *)

\* A slider move, any number of times (SliderChange without the count).
SliderMove(joint, val) ==
    /\ mounted
    /\ joint = "thetaBase" => viewMode = "3D"
    /\ angles' = handleAngleChange(angles, joint, val)
    /\ RunEffect(TRUE, showFrameAnimation, selectedJoint)
    /\ UNCHANGED <<mounted, viewMode, selectedStep, selectedJoint,
                   showFrameAnimation, fkSelectedStep, now, angleEdits>>

NextFK ==
    \/ Mount
    \/ \E v \in {"2D", "3D"} : SetViewMode(v)
    \/ \E joint \in Joints, val \in SliderSamples : SliderMove(joint, val)

SpecFK == Init /\ [][NextFK]_vars

---------------------------------------------------------------------------
(* Claims about the forward-kinematics solver *)

\* C18 (as stated): absolute1 = theta1, absolute2 = theta1 + theta2 and
\* absolute3 = theta1 + theta2 + theta3, so absolute2 - absolute1 = theta2
\* and absolute3 - absolute2 = theta3, for all joint angles.
C18_CumulativeExact ==
    LET r == fkAngles(angles) IN
    /\ r.absolute1 = angles.theta1
    /\ r.absolute2 = angles.theta1 + angles.theta2
    /\ r.absolute3 = angles.theta1 + angles.theta2 + angles.theta3
    /\ fsub(r.absolute2, r.absolute1) = angles.theta2
    /\ fsub(r.absolute3, r.absolute2) = angles.theta3

\* C18 (amended): absolute1 = theta1, absolute2 is the rounded sum theta1 +
\* theta2 and absolute3 the rounded sum absolute2 + theta3.  A rounded sum is
\* within half the number spacing of the exact one; absolute2 - absolute1 =
\* theta2 and absolute3 - absolute2 = theta3 hold when the sum needed no
\* rounding, and otherwise to within the spacing at the sum.
C18_CumulativeRounded ==
    LET r  == fkAngles(angles)
        s2 == angles.theta1 + angles.theta2
        s3 == r.absolute2 + angles.theta3
    IN  /\ r.absolute1 = angles.theta1
        /\ r.absolute2 = fadd(angles.theta1, angles.theta2)
        /\ r.absolute3 = fadd(r.absolute2, angles.theta3)
        /\ 2 * Abs(r.absolute2 - s2) <= Spacing(Abs(s2))
        /\ 2 * Abs(r.absolute3 - s3) <= Spacing(Abs(s3))
        /\ IsNumber(s2) => fsub(r.absolute2, r.absolute1) = angles.theta2
        /\ IsNumber(s3) => fsub(r.absolute3, r.absolute2) = angles.theta3
        /\ Abs(fsub(r.absolute2, r.absolute1) - angles.theta2)
               <= Spacing(Abs(s2))
        /\ Abs(fsub(r.absolute3, r.absolute2) - angles.theta3)
               <= Spacing(Abs(s3))

\* C18 witness: the sliders hold angles whose sum needs rounding, and the
\* difference absolute3 - absolute2 misses theta3.
C18_Witness ==
    /\ mounted
    /\ ~IsNumber(fkAngles(angles).absolute2 + angles.theta3)
    /\ fsub(fkAngles(angles).absolute3, fkAngles(angles).absolute2)
           # angles.theta3

\* The configurations the solver is called with: none (the defaults), the
\* one of Robot2d on an 800 x 600 canvas, the one of Robot3d, and partial
\* ones, one of them with a link of length zero.
Robot2dConfig ==
    [linkLengths |-> [L1 |-> L1, L2 |-> L2, L3 |-> L3],
     scale |-> Frac(SCALE, 1), baseX |-> 400, baseY |-> 300]

Robot3dConfig ==
    [linkLengths |-> [L1 |-> 40, L2 |-> 70, L3 |-> 50],
     scale |-> Frac(1, 10), baseX |-> 0, baseY |-> 0]

ConfigSamples ==
    {EmptyObject, Robot2dConfig, Robot3dConfig,
     [linkLengths |-> [L2 |-> 0]],
     [scale |-> Frac(1, 1), baseX |-> -50, baseY |-> 20]}

\* The links of a result r: <<previous joint, joint, length, absolute angle>>
Links(r) ==
    {<<r.base, r.joint1, r.config.linkLengths.L1, r.angles.absolute1>>,
     <<r.joint1, r.joint2, r.config.linkLengths.L2, r.angles.absolute2>>,
     <<r.joint2, r.joint3, r.config.linkLengths.L3, r.angles.absolute3>>}

\* The joint of link k lies at the previous joint + L * scale * (cos, sign *
\* sin) of the absolute angle.
LaidOut(r, k, sign) ==
    /\ k[2].x = k[1].x + ScaledBy(k[3], r.config.scale, cos(k[4]))
    /\ k[2].y = k[1].y + sign * ScaledBy(k[3], r.config.scale, sin(k[4]))

\* Link k has a positive length and an absolute angle in (0, 180) degrees.
PointsUp(k) == k[3] > 0 /\ Mod360(k[4]) > 0 /\ Mod360(k[4]) < 180

\* C19 (as stated): the solver works y-up: base = (baseX, baseY), each
\* joint is the previous one + Li * scale * (cos, +sin) of its absolute
\* angle, so an angle in (0, 180) degrees gives the joint a larger y than
\* its predecessor; theta1 = 90 degrees with the defaults gives joint1 =
\* (0, 80).
C19_YUp ==
    \A c \in ConfigSamples :
        LET r == calculateForwardKinematics(angles, c) IN
        /\ r.base = [x |-> r.config.baseX * TrigScale,
                     y |-> r.config.baseY * TrigScale]
        /\ \A k \in Links(r) :
               /\ LaidOut(r, k, 1)
               /\ PointsUp(k) => k[2].y > k[1].y
        /\ (c = EmptyObject /\ angles.theta1 = 90) =>
               r.joint1 = [x |-> 0, y |-> 80 * TrigScale]

\* C19 (amended): the solver works in the y-down convention of the canvas:
\* base = (baseX, baseY), each joint is the previous one + Li * scale *
\* (cos, -sin) of its absolute angle, so an angle in (0, 180) degrees gives
\* the joint a smaller y than its predecessor; theta1 = 90 degrees with the
\* defaults gives joint1 = (0, -80).  The 3D renderer's to3D negates y, which
\* makes its points y-up.
C19_YDown ==
    \A c \in ConfigSamples :
        LET r == calculateForwardKinematics(angles, c) IN
        /\ r.base = [x |-> r.config.baseX * TrigScale,
                     y |-> r.config.baseY * TrigScale]
        /\ \A k \in Links(r) :
               /\ LaidOut(r, k, -1)
               /\ PointsUp(k) => k[2].y < k[1].y
               /\ PointsUp(k) => to3D(k[2])[2] > to3D(k[1])[2]
        /\ (c = EmptyObject /\ angles.theta1 = 90) =>
               r.joint1 = [x |-> 0, y |-> -80 * TrigScale]

\* C19 witness: the theta1 slider is at 90 degrees and the solver, called
\* with its defaults, puts joint 1 at (0, -80).
C19_Witness ==
    /\ mounted /\ angles.theta1 = 90
    /\ calculateForwardKinematics(angles, EmptyObject).joint1
           = [x |-> 0, y |-> -80 * TrigScale]

\* The length of link k of result r in canvas units: L * scale.
CanvasLength(r, k) ==
    (k[3] * r.config.scale.n * TrigScale) \div r.config.scale.d

\* What the solver's result states about itself whatever the rounding: the
\* returned link lengths are the distances between consecutive joints, the
\* reach is the distance from the base to joint 3, and a link of length
\* zero leaves its two joints at the same position.
ChainConsistent(r) ==
    /\ r.linkLengths.link1 = distance(r.joint1, r.base)
    /\ r.linkLengths.link2 = distance(r.joint2, r.joint1)
    /\ r.linkLengths.link3 = distance(r.joint3, r.joint2)
    /\ r.reach = distance(r.joint3, r.base)
    /\ \A k \in Links(r) : k[3] = 0 => k[2] = k[1]

\* The rounding of the products L * scale * cos, L * scale * sin and of the
\* square root leaves the distance within RoundingPercent per cent of the
\* length, plus one unit for each of the two roundings.
RoundingPercent == 1

WithinRounding(d, len) ==
    Abs(d - len) * 100 <= RoundingPercent * len + 200

---------------------------------------------------------------------------
(* The solver as the views call it, under every user action and tick *)

NextCalls ==
    \/ Mount
    \/ \E step \in 0..4 : StepSelect(step)
    \/ \E j \in 1..3 : JointChange(j)
    \/ AnimationToggle
    \/ \E joint \in Joints, val \in SliderDegrees : SliderChange(joint, val)
    \/ \E v \in {"2D", "3D"} : SetViewMode(v)
    \/ Tick

SpecCalls == Init /\ [][NextCalls]_vars

\* The configuration the mounted view passes to the solver.
ViewConfig == IF viewMode = "2D" THEN Robot2dConfig ELSE Robot3dConfig

\* Robot2d / Robot3d: fkResult of the current render
fkResult == calculateForwardKinematics(angles, ViewConfig)

\* What the claim compares of a result.
Solved(r) ==
    <<r.base, r.joint1, r.joint2, r.joint3, r.angles, r.linkLengths, r.reach>>

\* C21: the result of calculateForwardKinematics depends only on theta1,
\* theta2, theta3 and the configuration: in every state, whatever the
\* selected step, the selected joint and the animation state are, the
\* view's result equals the result of a call that differs in thetaBase
\* only.
C21_ArmAnglesOnly ==
    \A b \in SliderDegrees \cup {0} :
        Solved(calculateForwardKinematics([angles EXCEPT !.thetaBase = b],
                                          ViewConfig))
            = Solved(fkResult)

\* C21 witness: the base yaw has been turned, a single joint is selected at
\* a step other than play-all, the animation has progressed, and the result
\* is the one of a call with base yaw 0.
C21_Witness ==
    /\ mounted /\ viewMode = "3D"
    /\ angles.thetaBase # 0
    /\ selectedStep = 2 /\ selectedJoint = 2
    /\ showFrameAnimation /\ GtInt(animProgress, 0)
    /\ Solved(calculateForwardKinematics([angles EXCEPT !.thetaBase = 0],
                                         ViewConfig))
           = Solved(fkResult)

\* Configurations that omit fields, next to those of ConfigSamples.
PartialConfigs ==
    ConfigSamples \cup
        {[linkLengths |-> [L1 |-> 10, L3 |-> 20]], [baseY |-> 7],
         [linkLengths |-> EmptyObject, scale |-> Frac(1, 2)]}

\* The value of field k of config, or d when config omits it.
GivenOr(config, k, d) == IF k \in DOMAIN config THEN config[k] ELSE d

\* C22: a call uses L1 = 40, L2 = 70, L3 = 50, scale = 2 and base (0, 0)
\* for whatever the configuration omits and the given value for the rest,
\* link length by link length, the result is the one of the call with that
\* configuration written out in full, and the call leaves DEFAULT_CONFIG
\* and DEFAULT_LINK_LENGTHS as they were.
C22_DefaultsAndOverrides ==
    \A c \in PartialConfigs :
        LET r     == calculateForwardKinematics(angles, c)
            given == GivenLinkLengths(c)
            full  == [linkLengths |-> [L1 |-> GivenOr(given, "L1", 40),
                                       L2 |-> GivenOr(given, "L2", 70),
                                       L3 |-> GivenOr(given, "L3", 50)],
                      scale |-> GivenOr(c, "scale", Frac(2, 1)),
                      baseX |-> GivenOr(c, "baseX", 0),
                      baseY |-> GivenOr(c, "baseY", 0)]
            after == mergeObjects(ModuleObjects, c)
        IN  /\ r.config = full
            /\ r = calculateForwardKinematics(angles, full)
            /\ r.base = [x |-> full.baseX * TrigScale,
                         y |-> full.baseY * TrigScale]
            /\ after["finalConfig.linkLengths"] = full.linkLengths
            /\ after.DEFAULT_LINK_LENGTHS = [L1 |-> 40, L2 |-> 70, L3 |-> 50]
            /\ after.DEFAULT_CONFIG = ModuleObjects.DEFAULT_CONFIG
            /\ after.DEFAULT_CONFIG.scale = Frac(2, 1)

\* C22 witness: with theta1 at 90 degrees, a call without configuration puts
\* joint 1 at 40 * 2 from the base (0, 0), and a call that gives L2 = 0 only
\* keeps L1 = 40 and L3 = 50.
C22_Witness ==
    /\ mounted /\ angles.theta1 = 90
    /\ calculateForwardKinematics(angles, EmptyObject).joint1
           = [x |-> 0, y |-> -(40 * 2 * TrigScale)]
    /\ calculateForwardKinematics(angles, [linkLengths |-> [L2 |-> 0]])
           .config.linkLengths = [L1 |-> 40, L2 |-> 0, L3 |-> 50]

---------------------------------------------------------------------------
(* JointController: the number inputs *)

\* A parsed number: NaN or the value v.
NaN == [nan |-> TRUE, v |-> 0]

Num(v) == [nan |-> FALSE, v |-> v]

DigitChars == <<"0", "1", "2", "3", "4", "5", "6", "7", "8", "9">>

IsDigit(c) == \E k \in 1..10 : DigitChars[k] = c

DigitOf(c) == (CHOOSE k \in 1..10 : DigitChars[k] = c) - 1

\* The digits of text from position i on: their value and where they end.
RECURSIVE DigitsFrom(_, _, _)
DigitsFrom(text, i, acc) ==
    IF i > Len(text) \/ ~IsDigit(text[i]) THEN [end |-> i, v |-> acc]
    ELSE DigitsFrom(text, i + 1, acc * 10 + DigitOf(text[i]))

\* parseFloat(text) for a text of characters: an optional sign and the
\* longest run of digits that follows; NaN when there is no digit.
parseFloat(text) ==
    LET signed == Len(text) > 0 /\ text[1] \in {"-", "+"}
        start  == IF signed THEN 2 ELSE 1
        d      == DigitsFrom(text, start, 0)
    IN  IF d.end = start THEN NaN
        ELSE Num(IF signed /\ text[1] = "-" THEN -d.v ELSE d.v)

\* x || 0 for a parsed number x: NaN and 0 are falsy.
OrZero(x) == IF x.nan \/ x.v = 0 THEN 0 ELSE x.v

Max(a, b) == IF a >= b THEN a ELSE b

Min(a, b) == IF a <= b THEN a ELSE b

\* Variant: the value is passed on as typed.
handleNumberInput_NoClamp(degValue) == degValue

\* JointController.handleNumberInput(joint, degValue): the degrees passed
\* to onAngleChange
handleNumberInput(degValue) == Max(-180, Min(180, degValue))

\* The texts typed into a number input, with the number the user means
\* (numeric = FALSE: the text is not a number).
NumberTexts ==
    {[text |-> <<>>, numeric |-> FALSE, number |-> 0],
     [text |-> <<"a", "b", "c">>, numeric |-> FALSE, number |-> 0],
     [text |-> <<"-">>, numeric |-> FALSE, number |-> 0],
     [text |-> <<"-", "2", "0", "0">>, numeric |-> TRUE, number |-> -200],
     [text |-> <<"2", "5", "0">>, numeric |-> TRUE, number |-> 250],
     [text |-> <<"1", "8", "1">>, numeric |-> TRUE, number |-> 181],
     [text |-> <<"-", "7">>, numeric |-> TRUE, number |-> -7],
     [text |-> <<"1", "2", "0">>, numeric |-> TRUE, number |-> 120],
     [text |-> <<"0">>, numeric |-> TRUE, number |-> 0]}

\* What a number input stores for the text typed.
StoredFor(text) == handleNumberInput(OrZero(parseFloat(text)))

\* An edit of joint's number input:
\* handleNumberInput(joint, parseFloat(e.target.value) || 0).  The base-yaw
\* input exists in the 3D view only.
NumberInput(joint, text) ==
    /\ mounted
    /\ joint = "thetaBase" => viewMode = "3D"
    /\ angles' = handleAngleChange(angles, joint, StoredFor(text))
    /\ RunEffect(TRUE, showFrameAnimation, selectedJoint)
    /\ UNCHANGED <<mounted, viewMode, selectedStep, selectedJoint,
                   showFrameAnimation, fkSelectedStep, now, angleEdits>>

NextController ==
    \/ Mount
    \/ \E v \in {"2D", "3D"} : SetViewMode(v)
    \/ \E joint \in Joints, val \in SliderDegrees : SliderMove(joint, val)
    \/ \E joint \in Joints, t \in NumberTexts : NumberInput(joint, t.text)

SpecController == Init /\ [][NextController]_vars

\* C23: after any sequence of number-input edits and slider moves every
\* stored joint angle is within [-180, 180] degrees; a number input stores
\* -180 for a number below -180, 180 for a number above 180, the number
\* itself in between, and 0 for a text that is not a number.
C23_AnglesInRange ==
    /\ \A j \in Joints : angles[j] \in -180..180
    /\ \A t \in NumberTexts :
           StoredFor(t.text) =
               IF ~t.numeric THEN 0
               ELSE IF t.number < -180 THEN -180
               ELSE IF t.number > 180 THEN 180
               ELSE t.number

\* C23 witness: 250, -200 and a text that is not a number have been typed
\* into the three arm inputs, which now hold 180, -180 and 0.
C23_Witness ==
    /\ mounted
    /\ angles.theta1 = StoredFor(<<"2", "5", "0">>) /\ angles.theta1 = 180
    /\ angles.theta2 = StoredFor(<<"-", "2", "0", "0">>)
    /\ angles.theta2 = -180
    /\ angles.theta3 = StoredFor(<<"a", "b", "c">>) /\ angles.theta3 = 0

---------------------------------------------------------------------------
(* Claims about the App handlers *)

\* C24: handleAngleChange(joint, value) sets exactly the named angle to
\* value and leaves the other three angles as they are; a step that changes
\* the angles changes one of them and leaves selectedStep, selectedJoint
\* and showFrameAnimation unchanged.
C24_OneAngleSet ==
    /\ [](\A j \in Joints, v \in SliderSamples :
             LET a == handleAngleChange(angles, j, v) IN
             /\ DOMAIN a = Joints
             /\ a[j] = v
             /\ \A k \in Joints \ {j} : a[k] = angles[k])
    /\ [][angles' # angles =>
             /\ \E j \in Joints :
                    \A k \in Joints \ {j} : angles'[k] = angles[k]
             /\ selectedStep' = selectedStep
             /\ selectedJoint' = selectedJoint
             /\ showFrameAnimation' = showFrameAnimation]_vars

\* C24 witness: theta2 alone has been moved to 90 degrees; the other angles
\* and the selection made by the mount are as they were.
C24_Witness ==
    /\ mounted
    /\ angles = [thetaBase |-> 0, theta1 |-> 45, theta2 |-> 90, theta3 |-> -60]
    /\ selectedStep = 4 /\ selectedJoint = 0 /\ showFrameAnimation

\* C25: handleStepChange(step) sets selectedStep = step; step 4 selects
\* play-all (selectedJoint = 0) and enables the animation, a step k in 1..3
\* selects joint k and enables it, step 0 disables it and leaves
\* selectedJoint as it is; a step selection leaves the angles unchanged, and
\* selectedJoint stays in 0..3 and selectedStep in 0..4.
C25_StepMapping ==
    /\ [](/\ selectedJoint \in 0..3
          /\ selectedStep \in 0..4
          /\ \A step \in 0..4 :
                LET s == handleStepChange(step, AppState) IN
                /\ s.selectedStep = step
                /\ step = 4 => s.selectedJoint = 0 /\ s.showFrameAnimation
                /\ step \in 1..3 =>
                       s.selectedJoint = step /\ s.showFrameAnimation
                /\ step = 0 => /\ ~s.showFrameAnimation
                               /\ s.selectedJoint = selectedJoint)
    /\ [][(fkSelectedStep' # fkSelectedStep \/ selectedStep' # selectedStep) =>
             /\ selectedStep' = fkSelectedStep'
             /\ selectedJoint' = IF selectedStep' = 4 THEN 0
                                 ELSE IF selectedStep' = 0 THEN selectedJoint
                                 ELSE selectedStep'
             /\ showFrameAnimation' = (selectedStep' # 0)
             /\ angles' = angles]_vars

\* C25 witness: step 3 and then step 0 have been selected after a slider
\* move: the animation is off and joint 3 is still the selected joint.
C25_Witness ==
    /\ mounted /\ angleEdits > 0
    /\ selectedStep = 0 /\ fkSelectedStep = 0
    /\ selectedJoint = 3 /\ ~showFrameAnimation

\* C26: handleStepChange is idempotent: notifying App twice of a step
\* leaves selectedStep, selectedJoint and showFrameAnimation as one
\* notification does, so a click whose step differs from the selector's
\* (notified by handleStepSelect and again by the selector's effect) leaves
\* the state of a single notification.
C26_Idempotent ==
    /\ [](\A step \in 0..4 :
             handleStepChange(step, handleStepChange(step, AppState))
                 = handleStepChange(step, AppState))
    /\ [][fkSelectedStep' # fkSelectedStep =>
             AppState' = handleStepChange(fkSelectedStep', AppState)]_vars

\* C26 witness: step 2 has been clicked while the selector was at another
\* step (it starts at step 4).
C26_Witness ==
    /\ mounted
    /\ fkSelectedStep = 2 /\ selectedStep = 2
    /\ selectedJoint = 2 /\ showFrameAnimation

\* C27: before the mount effects have run the App holds its initial values
\* selectedStep = 4, selectedJoint = 1, showFrameAnimation = false; the
\* mount, with no user action, leaves selectedStep = 4, selectedJoint = 0
\* and showFrameAnimation = true, with the play-all loop armed.
C27_PlayAllAfterMount ==
    /\ [](~mounted => /\ selectedStep = 4 /\ selectedJoint = 1
                      /\ ~showFrameAnimation /\ frames = {})
    /\ [][(~mounted /\ mounted') =>
             /\ selectedStep' = 4 /\ selectedJoint' = 0
             /\ showFrameAnimation'
             /\ animationRef' # 0
             /\ \A f \in frames' : f.id = animationRef' /\ f.selectedJoint = 0
             /\ Cardinality(frames') = 1]_vars

\* C27 witness: the mount has completed and nothing else has happened.
C27_Witness ==
    /\ mounted /\ now = 0 /\ angleEdits = 0 /\ viewMode = "2D"
    /\ selectedStep = 4 /\ fkSelectedStep = 4
    /\ selectedJoint = 0 /\ showFrameAnimation
    /\ frames = {Callback(animationRef, "2D", 0, 0)}

---------------------------------------------------------------------------
(* The animated frame against the solver's joint positions *)

\* Robot2d: (currentX, currentY) of frame f, in the solver's units
FramePoint2D(f) ==
    LET start == calculateForwardKinematics(angles, Robot2dConfig)[f.startPos]
    IN  [x |-> start.x + (f.dist.n * cos(f.heading)) \div f.dist.d,
         y |-> start.y - (f.dist.n * sin(f.heading)) \div f.dist.d]

\* Robot3d: [currentX, currentY, currentZ] of frame f
FramePoint3D(f) ==
    LET start ==
            to3D(calculateForwardKinematics(angles, Robot3dConfig)[f.startPos])
    IN  <<start[1] + (f.dist.n * cos(f.heading)) \div f.dist.d,
          start[2] + (f.dist.n * sin(f.heading)) \div f.dist.d,
          0>>

\* The raw play-all progress at which the window of joint k ends.
WindowEnd2D(k) == IF k = 1 THEN 1 ELSE 2 * k - 1

WindowEnd3D(k) == WindowStart3D(k) + 2

\* The play-all frame at the end of joint k's window, every link shown.
EndOfWindow2D(k) ==
    renderAnimatedFrame(TRUE, 0, Frac(WindowEnd2D(k), 1), angles)

EndOfWindow3D(k) ==
    renderAnimatedFrame3D(TRUE, 0, 4, Frac(WindowEnd3D(k), 1), angles)

\* C28: in play-all mode the frame at the end of joint k's window (position
\* and angle) equals the frame at the start of joint k+1's window, for k =
\* 1, 2, in the 2D and in the 3D view, and a joint's translation ends at the
\* solver's position of the joint it leads to: joint 1 and joint 2 for the
\* 2D frames of joints 2 and 3, joint k for the 3D frame of joint k.
C28_ContinuousFrames ==
    LET r2 == calculateForwardKinematics(angles, Robot2dConfig)
        r3 == calculateForwardKinematics(angles, Robot3dConfig)
    IN  /\ \A k \in 1..2 :
               /\ EndOfWindow2D(k).drawn /\ EndOfWindow2D(k).activeJoint = k
               /\ FramePoint2D(EndOfWindow2D(k))
                      = FramePoint2D(JointFrame2D(k + 1, Zero))
               /\ FEq(CurrentAngle(EndOfWindow2D(k)),
                      CurrentAngle(JointFrame2D(k + 1, Zero)))
               /\ EndOfWindow3D(k).drawn /\ EndOfWindow3D(k).activeJoint = k
               /\ FramePoint3D(EndOfWindow3D(k))
                      = FramePoint3D(JointFrame3D(k + 1, Zero))
               /\ FEq(CurrentAngle(EndOfWindow3D(k)),
                      CurrentAngle(JointFrame3D(k + 1, Zero)))
        /\ FramePoint2D(JointFrame2D(2, One)) = r2.joint1
        /\ FramePoint2D(JointFrame2D(3, One)) = r2.joint2
        /\ FramePoint2D(EndOfWindow2D(3)) = r2.joint2
        /\ FramePoint3D(EndOfWindow3D(1)) = to3D(r3.joint1)
        /\ FramePoint3D(EndOfWindow3D(2)) = to3D(r3.joint2)
        /\ FramePoint3D(EndOfWindow3D(3)) = to3D(r3.joint3)

\* C28 witness: with theta1 at 90 and theta2 at -60 degrees the 2D frame at
\* the end of joint 2's window stands at the solver's joint 1, away from
\* the base, turned to an angle other than the one it started the window
\* with.
C28_Witness ==
    /\ mounted /\ angles.theta1 = 90 /\ angles.theta2 = -60
    /\ FramePoint2D(EndOfWindow2D(2))
           = calculateForwardKinematics(angles, Robot2dConfig).joint1
    /\ FramePoint2D(EndOfWindow2D(2))
           # calculateForwardKinematics(angles, Robot2dConfig).base
    /\ ~FEq(CurrentAngle(EndOfWindow2D(2)),
            CurrentAngle(JointFrame2D(2, Zero)))

---------------------------------------------------------------------------
(* Claims about the callbacks and what they write *)

\* The (showFrameAnimation, selectedJoint, angles) combination.
Combination == <<showFrameAnimation, selectedJoint, angles>>

\* C29: every pending frame callback was armed under the current
\* selector; when the (showFrameAnimation, selectedJoint, angles)
\* combination changes, no callback armed before the change stays pending
\* (one fresh callback when the animation is enabled, none otherwise); and
\* the progress a tick writes is computed by a pending callback of the
\* current selector and view and lies within the units of the current mode.
C29_NoStaleTick ==
    /\ [](\A f \in frames :
             /\ showFrameAnimation
             /\ f.selectedJoint = selectedJoint /\ f.view = viewMode)
    /\ [][Combination' # Combination =>
             frames' = IF showFrameAnimation'
                       THEN {Callback(animationRef', viewMode, selectedJoint', 0)}
                       ELSE {}]_vars
    /\ [][TickStep =>
             /\ Combination' = Combination /\ viewMode' = viewMode
             /\ \E f \in frames :
                    /\ f.selectedJoint = selectedJoint /\ f.view = viewMode
                    /\ animProgress' =
                           LET elapsed ==
                                   now' - animateStartTime(f.startTime, now')
                           IN  IF viewMode = "2D"
                               THEN animateProgress2D(selectedJoint, elapsed)
                               ELSE animateProgress3D(selectedJoint, elapsed)
             /\ GeInt(animProgress', 0)
             /\ LtInt(animProgress', UnitsOf(viewMode, selectedJoint))]_vars

\* C29 witness: play-all had progressed beyond the two units of a single
\* joint when joint 2 was selected; the loop armed for joint 2 has run and
\* written a progress within joint 2's two units.
C29_Witness ==
    /\ mounted /\ showFrameAnimation /\ selectedJoint = 2
    /\ now >= 5 * FrameMs
    /\ \E f \in frames : f.startTime >= 4 * FrameMs /\ f.startTime < now
    /\ GtInt(animProgress, 0) /\ LtInt(animProgress, 2)

---------------------------------------------------------------------------
(* Claims about the 2D matrix overlay *)

\* C30: in the 2D view, while the frame of joint 2 or 3 is drawn, the
\* matrix overlay shows the same joint, marks the translation phase exactly
\* when the frame is translating, and the length it shows (in mm) is the
\* length of the link the frame is translated along (translateLength in
\* pixels, SCALE pixels per mm).
C30_OverlayAgrees ==
    (viewMode = "2D" /\ Frame2D.drawn /\ Frame2D.activeJoint \in {2, 3}) =>
        /\ Matrix2D.drawn
        /\ Matrix2D.activeJoint = Frame2D.activeJoint
        /\ Matrix2D.isTranslationPhase <=> Frame2D.phase = "translating"
        /\ Matrix2D.targetLength * SCALE = Frame2D.translateLength

====
